---- MODULE Spec2Model ----
(***************************************************************************)
(* Model of the Nuheat Conductor integration                               *)
(* (custom_components/nuheat_conductor/climate.py).                        *)
(*                                                                         *)
(* One entity created by async_setup_entry is followed: either a           *)
(* NuheatConductorThermostat or a NuheatConductorGroup.  Entities share no *)
(* state, so following one at a time covers their behaviours.              *)
(*                                                                         *)
(* Python values:                                                          *)
(*   Optional[T]      None is <<>>, a value v is <<v>>                     *)
(*   dict             a record over the keys the code reads; a key maps to *)
(*                    <<>> when absent and to <<v>> when present           *)
(*   float t / 100.0  [whole |-> t \div 100, cents |-> t % 100]           *)
(*   dict|list|None   [type |-> "dict" | "list" | "NoneType", val |-> ..]  *)
(*                                                                         *)
(* Every handler is a coroutine: it runs without interruption up to the    *)
(* network await inside NuheatConductorAPI._make_request, and resumes when *)
(* the request completes.  The host may run the periodic async_update of   *)
(* an entity and one command handler of the same entity at the same time,  *)
(* so the poll task and the command task have their own positions.         *)
(***************************************************************************)
EXTENDS Integers, Sequences, FiniteSets, TLC

VARIABLES
    entity,            \* "thermostat" | "group": the class of the entity followed
    temperature_unit,  \* _attr_temperature_unit: "C" | "F"
    thermostat,        \* fields of the NuheatConductorThermostat
    group,             \* fields of the NuheatConductorGroup
    poll,              \* position of the host's async_update call
    cmd,               \* position of the command handler
    api_call,          \* the _make_request invocation that returned in the
                       \* latest step, NoApiCall when none did
    returned,          \* the handler invocation that returned in the latest
                       \* step, NoReturn when none did
    raw_temp,          \* a vendor temperature integer (hundredths of a degree)
    decoded,           \* what _update_from_data makes of raw_temp
    payload,           \* the setPointTemp that set_target_temperature sends
                       \* for decoded
    entries,           \* the config entries of the integration, oldest first
    flows,             \* the config flows of the integration, by flow id
    hass_data,         \* hass.data: whether it has the key DOMAIN, and the
                       \* sessions of hass.data[DOMAIN] by entry id
    setups             \* by entry id: where the host is with the setup and
                       \* the unload of the entry, and what they returned

\* the climate entity that is followed
climateVars ==
    <<entity, temperature_unit, thermostat, group, poll, cmd, api_call,
      returned>>

\* one temperature on its way in from the vendor and out again
conversionVars == <<raw_temp, decoded, payload>>

\* the host's config entries and config flows
flowVars == <<entries, flows>>

\* the registry of sessions and the lifecycle of the entries
entryVars == <<hass_data, setups>>

\* what the handlers of the climate entities leave alone
outsideClimate == <<conversionVars, flowVars, entryVars>>

vars == <<climateVars, conversionVars, flowVars, entryVars>>

----------------------------------------------------------------------------
(* Python values *)

None == <<>>

Some(v) == <<v>>

\* dict.get(key, default)
Get(data, key, default) == IF data[key] = <<>> THEN default ELSE data[key][1]

\* dict.get(key): None when the key is absent
GetOpt(data, key) == data[key]

\* setpoint / 100.0
PyFloat(t) == [whole |-> t \div 100, cents |-> t % 100]

\* The hundredths h in 0..4200 for which the double h / 100.0 multiplied by
\* 100 lies just under h, so that int() truncates to h - 1 (35.3 * 100 is
\* 3529.9999999999995): the values of IEEE 754 double arithmetic.  No
\* multiple of 100 is among them, below 4200 or above (h / 100.0 is then an
\* integer, and so is the product).
TruncatedHundredths ==
    {29, 57, 58, 113, 114, 115, 116, 201, 203, 205, 207, 226, 228, 230,
     232, 251, 253, 255, 402, 406, 410, 414, 427, 431, 435, 439, 452, 456,
     460, 464, 477, 481, 485, 489, 502, 506, 510, 803, 804, 812, 820, 828,
     829, 837, 845, 853, 854, 862, 870, 878, 879, 887, 895, 903, 904, 912,
     920, 928, 929, 937, 945, 953, 954, 962, 970, 978, 979, 987, 995, 1003,
     1004, 1012, 1020, 1606, 1608, 1615, 1624, 1631, 1633, 1640, 1649,
     1656, 1658, 1665, 1674, 1681, 1683, 1690, 1699, 1706, 1708, 1715,
     1724, 1731, 1733, 1740, 1749, 1756, 1758, 1765, 1774, 1781, 1783,
     1790, 1799, 1806, 1808, 1815, 1824, 1831, 1833, 1840, 1849, 1856,
     1858, 1865, 1874, 1881, 1883, 1890, 1899, 1906, 1908, 1915, 1924,
     1931, 1933, 1940, 1949, 1956, 1958, 1965, 1974, 1981, 1983, 1990,
     1999, 2006, 2008, 2015, 2024, 2031, 2033, 2040, 3205, 3212, 3216,
     3223, 3230, 3237, 3241, 3248, 3255, 3262, 3266, 3273, 3280, 3287,
     3291, 3298, 3305, 3312, 3316, 3323, 3330, 3337, 3341, 3348, 3355,
     3362, 3366, 3373, 3380, 3387, 3391, 3398, 3405, 3412, 3416, 3423,
     3430, 3437, 3441, 3448, 3455, 3462, 3466, 3473, 3480, 3487, 3491,
     3498, 3505, 3512, 3516, 3523, 3530, 3537, 3541, 3548, 3555, 3562,
     3566, 3573, 3580, 3587, 3591, 3598, 3605, 3612, 3616, 3623, 3630,
     3637, 3641, 3648, 3655, 3662, 3666, 3673, 3680, 3687, 3691, 3698,
     3705, 3712, 3716, 3723, 3730, 3737, 3741, 3748, 3755, 3762, 3766,
     3773, 3780, 3787, 3791, 3798, 3805, 3812, 3816, 3823, 3830, 3837,
     3841, 3848, 3855, 3862, 3866, 3873, 3880, 3887, 3891, 3898, 3905,
     3912, 3916, 3923, 3930, 3937, 3941, 3948, 3955, 3962, 3966, 3973,
     3980, 3987, 3991, 3998, 4005, 4012, 4016, 4023, 4030, 4037, 4041,
     4048, 4055, 4062, 4066, 4073, 4080, 4087, 4091}

PyNone == [type |-> "NoneType", val |-> <<>>]

PyDict(d) == [type |-> "dict", val |-> d]

PyList(l) == [type |-> "list", val |-> l]


----------------------------------------------------------------------------
(* Vendor records *)

ThermostatKeys ==
    {"serialNumber", "currentTemperature", "setPointTemp", "minTemp",
     "maxTemp", "scheduleMode", "online", "isHeating"}

Opt(S) == {<<>>} \cup {<<v>> : v \in S}

\* scheduleMode values of raw records: the schedule (1) and a code that the
\* integration does not know (4)
RawScheduleModes == {1, 4}

\* raw thermostat records the vendor API may return for one thermostat; the
\* record with no key present is the empty dict.  The measured temperature
\* and the two bounds are present or absent together.
RawThermostats ==
    {d \in [serialNumber : Opt({"SN1"}),
            currentTemperature : Opt({3000}),
            setPointTemp : Opt({3530}),
            minTemp : Opt({500}),
            maxTemp : Opt({4000}),
            scheduleMode : Opt(RawScheduleModes),
            online : Opt(BOOLEAN),
            isHeating : Opt(BOOLEAN)] :
        /\ (d.currentTemperature = <<>>) = (d.maxTemp = <<>>)
        /\ (d.currentTemperature = <<>>) = (d.minTemp = <<>>)
        /\ d.serialNumber = <<>> => \A k \in ThermostatKeys : d[k] = <<>>}

\* the records async_setup_entry may construct the thermostat from: the list
\* endpoint may also leave the serial number out
ListedThermostats ==
    RawThermostats \cup {[d EXCEPT !.serialNumber = <<>>] : d \in RawThermostats}

GroupKeys == {"groupId", "awayMode", "awaySetPointTemp"}

RawGroups ==
    [groupId : Opt({"G1", "G2"}),
     awayMode : Opt(BOOLEAN),
     awaySetPointTemp : Opt({1500})]

\* `not data` for a dict
IsEmptyDict(data) == \A k \in DOMAIN data : data[k] = <<>>

\* the {} that _make_request returns for 204
EmptyObject == PyDict([k \in ThermostatKeys |-> <<>>])

----------------------------------------------------------------------------
(* The network: what one HTTP request can end in *)

NoBody == [type |-> "none", val |-> <<>>]

\* a 200 whose body resp.json() cannot parse
InvalidJson == [type |-> "invalid", val |-> <<>>]

Response(status, body) == [kind |-> "response", status |-> status, body |-> body]

TimedOut == [kind |-> "timeout", status |-> 0, body |-> NoBody]

TransportError == [kind |-> "error", status |-> 0, body |-> NoBody]

NoOutcome == [kind |-> "none", status |-> 0, body |-> NoBody]

\* statuses without a JSON body that the model lets the vendor answer with
BodylessStatuses == {204, 401, 500}

Outcomes(bodies) ==
    {Response(200, b) : b \in bodies \cup {InvalidJson, PyNone}}
        \cup {Response(s, NoBody) : s \in BodylessStatuses}
        \cup {TimedOut, TransportError}

\* GET /api/v1/Thermostat/{id}
ThermostatGetOutcomes ==
    Outcomes({PyDict(d) : d \in RawThermostats} \cup {PyList(<<>>)})

\* PUT /api/v1/Thermostat and PUT /api/v1/Group
PutOutcomes == Outcomes({EmptyObject})

MaxGroups == 2

GroupLists ==
    UNION {[1..n -> RawGroups] : n \in 0..MaxGroups}

\* GET /api/v1/Group
GroupGetOutcomes ==
    Outcomes({PyList(l) : l \in GroupLists} \cup {EmptyObject})

----------------------------------------------------------------------------
(* NuheatConductorAPI *)

Returned(v) == [raised |-> FALSE, value |-> v]

Raised == [raised |-> TRUE, value |-> PyNone]

\* a _make_request that goes on without a token
RequestSent_IgnoresToken(token_valid) == TRUE

\* _make_request up to the call of websession.request: whether the HTTP
\* request is sent.  async_ensure_token_valid raising makes the operation
\* return None at once.
RequestSent(token_valid) == token_valid

\* a _make_request without the handler `except Exception`
MakeRequestResult_Propagates(outcome) ==
    CASE outcome.kind = "timeout" -> Returned(PyNone)
      [] outcome.kind = "error" -> Raised
      [] outcome.kind = "response" /\ outcome.status = 401 -> Returned(PyNone)
      [] outcome.kind = "response" /\ outcome.status = 200 ->
            IF outcome.body = InvalidJson
                THEN Raised
                ELSE Returned(outcome.body)
      [] outcome.kind = "response" /\ outcome.status = 204 ->
            Returned(EmptyObject)
      [] OTHER -> Returned(PyNone)

\* _make_request from websession.request on: what the operation returns for
\* an outcome of the HTTP request
MakeRequestResult(outcome) ==
    CASE outcome.kind = "timeout" -> Returned(PyNone)
      [] outcome.kind = "error" -> Returned(PyNone)
      [] outcome.kind = "response" /\ outcome.status = 401 -> Returned(PyNone)
      [] outcome.kind = "response" /\ outcome.status = 200 ->
            IF outcome.body = InvalidJson
                THEN Returned(PyNone)       \* resp.json() raises, caught
                ELSE Returned(outcome.body)
      [] outcome.kind = "response" /\ outcome.status = 204 ->
            Returned(EmptyObject)
      [] OTHER -> Returned(PyNone)

\* what _make_request returns when the token could not be obtained
NoTokenResult == Returned(PyNone)

\* get_thermostat_data: the type guard on the result
GetThermostatData(result) ==
    IF result.type = "dict" THEN Some(result.val) ELSE None

\* get_groups: the type guard on the result
GetGroups(result) ==
    IF result.type = "list" THEN result.val ELSE <<>>

\* `result is not None` of set_target_temperature, set_schedule_mode and
\* set_group_away_mode
IsSuccess(result) == result.type # "NoneType"

\* a set_target_temperature that sends the number of degrees as it is, which
\* is what the v2 API took
TempInt_Unscaled(temperature) == temperature.whole

\* int(temperature * 100)
TempInt(temperature) ==
    LET h == temperature.whole * 100 + temperature.cents
    IN  IF h \in TruncatedHundredths THEN h - 1 ELSE h

NoRequest == [method |-> "none", endpoint |-> "", json |-> <<>>]

\* the request of get_thermostat_data
ThermostatGetRequest(thermostat_id) ==
    [method |-> "GET", endpoint |-> "/api/v1/Thermostat/" \o thermostat_id,
     json |-> <<>>]

\* the request of set_target_temperature
SetTargetTemperatureRequest(thermostat_id, temperature, mode) ==
    [method |-> "PUT", endpoint |-> "/api/v1/Thermostat",
     json |-> [serialNumber |-> thermostat_id,
               setPointTemp |-> TempInt(temperature),
               scheduleMode |-> mode]]

\* the request of set_schedule_mode
SetScheduleModeRequest(thermostat_id, mode) ==
    [method |-> "PUT", endpoint |-> "/api/v1/Thermostat",
     json |-> [serialNumber |-> thermostat_id, scheduleMode |-> mode]]

\* the request of get_groups
GroupsGetRequest ==
    [method |-> "GET", endpoint |-> "/api/v1/Group", json |-> <<>>]

\* the request of set_group_away_mode
SetGroupAwayModeRequest(group_id, away_mode) ==
    [method |-> "PUT", endpoint |-> "/api/v1/Group",
     json |-> [groupId |-> group_id, awayMode |-> away_mode]]

\* the record of a completed _make_request invocation: who called, the
\* request, whether the token was obtained, the number of HTTP requests sent,
\* what the HTTP request ended in and what the operation returned
ApiCall(by, request, token_valid, sent, outcome, result) ==
    [by |-> by, request |-> request, token_valid |-> token_valid,
     sent |-> sent, outcome |-> outcome, result |-> result]

----------------------------------------------------------------------------
(* NuheatConductorThermostat *)

\* temp / 100.0 if temp is not None else None
ConvertTemperature(temp) ==
    IF temp # None THEN Some(PyFloat(temp[1])) ELSE None

\* _update_from_data without the offline override of the heating flag
UpdateFromData_NoOfflineOverride(self, data) ==
    IF IsEmptyDict(data)
        THEN self
        ELSE [self EXCEPT
                !.current_temperature =
                    ConvertTemperature(GetOpt(data, "currentTemperature")),
                !.target_temperature =
                    ConvertTemperature(GetOpt(data, "setPointTemp")),
                !.min_temperature =
                    ConvertTemperature(GetOpt(data, "minTemp")),
                !.max_temperature =
                    ConvertTemperature(GetOpt(data, "maxTemp")),
                !.schedule_mode = GetOpt(data, "scheduleMode"),
                !.is_online = Get(data, "online", TRUE),
                !.is_heating = Get(data, "isHeating", FALSE)]

\* _update_from_data that patches: an absent scheduleMode keeps the old one
UpdateFromData_Patch(self, data) ==
    IF IsEmptyDict(data)
        THEN self
        ELSE LET online == Get(data, "online", TRUE)
             IN  [self EXCEPT
                    !.current_temperature =
                        ConvertTemperature(GetOpt(data, "currentTemperature")),
                    !.target_temperature =
                        ConvertTemperature(GetOpt(data, "setPointTemp")),
                    !.min_temperature =
                        ConvertTemperature(GetOpt(data, "minTemp")),
                    !.max_temperature =
                        ConvertTemperature(GetOpt(data, "maxTemp")),
                    !.schedule_mode =
                        IF data["scheduleMode"] = <<>>
                            THEN self.schedule_mode
                            ELSE GetOpt(data, "scheduleMode"),
                    !.is_online = online,
                    !.is_heating =
                        IF ~online THEN FALSE
                                   ELSE Get(data, "isHeating", FALSE)]

\* _update_from_data
UpdateFromData(self, data) ==
    IF IsEmptyDict(data)
        THEN self
        ELSE LET online == Get(data, "online", TRUE)
             IN  [self EXCEPT
                    !.current_temperature =
                        ConvertTemperature(GetOpt(data, "currentTemperature")),
                    !.target_temperature =
                        ConvertTemperature(GetOpt(data, "setPointTemp")),
                    !.min_temperature =
                        ConvertTemperature(GetOpt(data, "minTemp")),
                    !.max_temperature =
                        ConvertTemperature(GetOpt(data, "maxTemp")),
                    !.schedule_mode = GetOpt(data, "scheduleMode"),
                    !.is_online = online,
                    !.is_heating =
                        IF ~online THEN FALSE
                                   ELSE Get(data, "isHeating", FALSE)]

\* the fields __init__ sets before it calls _update_from_data
BlankThermostat(thermostat_id) ==
    [thermostat_id |-> thermostat_id,
     current_temperature |-> None,
     target_temperature |-> None,
     min_temperature |-> None,
     max_temperature |-> None,
     schedule_mode |-> None,
     is_heating |-> FALSE,
     is_online |-> TRUE,
     attr_available |-> TRUE]

\* __init__
NewThermostat(thermostat_data) ==
    UpdateFromData(
        BlankThermostat(Get(thermostat_data, "serialNumber", "")),
        thermostat_data)

\* the canonical record: every field but the identity and the availability
Canonical(self) ==
    [current_temperature |-> self.current_temperature,
     target_temperature |-> self.target_temperature,
     min_temperature |-> self.min_temperature,
     max_temperature |-> self.max_temperature,
     schedule_mode |-> self.schedule_mode,
     is_heating |-> self.is_heating,
     is_online |-> self.is_online]

\* property min_temp
min_temp(self, unit) ==
    IF self.min_temperature # None
        THEN self.min_temperature[1]
        ELSE IF unit = "C" THEN PyFloat(500) ELSE PyFloat(4100)

\* property max_temp
max_temp(self, unit) ==
    IF self.max_temperature # None
        THEN self.max_temperature[1]
        ELSE IF unit = "C" THEN PyFloat(4000) ELSE PyFloat(10400)

\* property hvac_mode
hvac_mode(self) == IF ~self.is_online THEN "off" ELSE "heat"

\* property preset_mode
preset_mode(self) ==
    CASE self.schedule_mode = Some(1) -> Some("Auto")
      [] self.schedule_mode = Some(2) -> Some("Hold")
      [] self.schedule_mode = Some(3) -> Some("Permanent Hold")
      [] OTHER -> None

\* property supported_features
supported_features(self) ==
    IF ~self.is_online THEN {} ELSE {"TARGET_TEMPERATURE", "PRESET_MODE"}

\* property hvac_action
hvac_action(self) ==
    IF ~self.is_online THEN "off"
    ELSE IF self.is_heating THEN "heating" ELSE "idle"

\* a mode_map in which "Hold" stands for the permanent hold as well
mode_map_HoldPermanent(preset) ==
    CASE preset = "Auto" -> Some(1)
      [] preset = "Hold" -> Some(3)
      [] preset = "Permanent Hold" -> Some(3)
      [] OTHER -> None

\* a mode_map that takes an unknown preset for "Auto"
mode_map_DefaultsToAuto(preset) ==
    CASE preset = "Hold" -> Some(2)
      [] preset = "Permanent Hold" -> Some(3)
      [] OTHER -> Some(1)

\* mode_map.get(preset_mode) of async_set_preset_mode
mode_map(preset) ==
    CASE preset = "Auto" -> Some(1)
      [] preset = "Hold" -> Some(2)
      [] preset = "Permanent Hold" -> Some(3)
      [] OTHER -> None

\* truth value of a float | None
Truthy(temperature) ==
    temperature # None /\ temperature[1] # PyFloat(0)

\* async_update that also marks the thermostat offline when the fetch fails
AfterThermostatData_MarksOffline(self, data) ==
    IF data # None /\ ~IsEmptyDict(data[1])
        THEN [UpdateFromData(self, data[1]) EXCEPT !.attr_available = TRUE]
        ELSE [self EXCEPT !.attr_available = FALSE, !.is_online = FALSE,
                          !.is_heating = FALSE]

\* async_update that tests `data is not None` in place of `data`
AfterThermostatData_NotNone(self, data) ==
    IF data # None
        THEN [UpdateFromData(self, data[1]) EXCEPT !.attr_available = TRUE]
        ELSE [self EXCEPT !.attr_available = FALSE]

\* async_update from the return of get_thermostat_data on
AfterThermostatData(self, data) ==
    IF data # None /\ ~IsEmptyDict(data[1])
        THEN [UpdateFromData(self, data[1]) EXCEPT !.attr_available = TRUE]
        ELSE [self EXCEPT !.attr_available = FALSE]

----------------------------------------------------------------------------
(* NuheatConductorGroup *)

\* _update_from_data
GroupUpdateFromData(self, data) ==
    IF IsEmptyDict(data)
        THEN self
        ELSE [self EXCEPT
                !.away_mode = Get(data, "awayMode", FALSE),
                !.away_setpoint =
                    ConvertTemperature(GetOpt(data, "awaySetPointTemp"))]

\* __init__
NewGroup(group_data) ==
    GroupUpdateFromData(
        [group_id |-> Get(group_data, "groupId", ""),
         away_mode |-> FALSE,
         away_setpoint |-> None,
         attr_available |-> TRUE],
        group_data)

\* property preset_mode
group_preset_mode(self) == IF self.away_mode THEN "Away" ELSE "Home"

RECURSIVE FindGroup(_, _, _)
\* the loop of async_update: the first group of the list whose groupId is
\* group_id, from position i on; None when there is none
FindGroup(groups, group_id, i) ==
    IF i > Len(groups) THEN None
    ELSE IF GetOpt(groups[i], "groupId") = Some(group_id)
            THEN Some(groups[i])
            ELSE FindGroup(groups, group_id, i + 1)

\* async_update that takes a missing group for a group with default values
AfterGroups_ResetsMissing(self, groups) ==
    LET found == FindGroup(groups, self.group_id, 1)
    IN  IF found # None
            THEN [GroupUpdateFromData(self, found[1])
                    EXCEPT !.attr_available = TRUE]
            ELSE [self EXCEPT !.attr_available = FALSE,
                              !.away_mode = FALSE,
                              !.away_setpoint = None]

\* async_update from the return of get_groups on
AfterGroups(self, groups) ==
    LET found == FindGroup(groups, self.group_id, 1)
    IN  IF found # None
            THEN [GroupUpdateFromData(self, found[1])
                    EXCEPT !.attr_available = TRUE]
            ELSE [self EXCEPT !.attr_available = FALSE]

\* the value of the variable of the entity that is not followed
NotCreated == [created |-> FALSE]

----------------------------------------------------------------------------
(* Handlers as coroutines *)

\* a command handler, called as op with the preset or the HVAC mode arg ("" for
\* a call that carries a temperature), that has not called the API (yet)
NewCmd(op, arg) ==
    [pc |-> "start", op |-> op, arg |-> arg, request |-> NoRequest,
     mode |-> None,
     token_valid |-> FALSE,
     put_calls |-> 0, puts |-> 0, get_calls |-> 0, gets |-> 0,
     success |-> None]

IdleCmd == [NewCmd("none", "") EXCEPT !.pc = "idle"]

IdlePoll ==
    [pc |-> "idle", op |-> "none", arg |-> "", request |-> NoRequest,
     token_valid |-> FALSE, get_calls |-> 0, gets |-> 0]

NoApiCall == ApiCall("none", NoRequest, FALSE, 0, NoOutcome, NoTokenResult)

\* the record of a handler invocation that has returned: the counts of
\* _make_request invocations and of HTTP requests sent, the `success` of the
\* PUT (None when none was made), whether async_write_ha_state was called
\* and whether an exception left the handler
Return(by, task, wrote, raised) ==
    [by |-> by, op |-> task.op, arg |-> task.arg,
     put_calls |-> IF by = "cmd" THEN task.put_calls ELSE 0,
     puts |-> IF by = "cmd" THEN task.puts ELSE 0,
     get_calls |-> task.get_calls, gets |-> task.gets,
     success |-> IF by = "cmd" THEN task.success ELSE None,
     wrote |-> wrote, raised |-> raised]

NoReturn == Return("none", IdlePoll, FALSE, FALSE)

\* temperatures a set_temperature service call may carry
CommandTemperatures == Opt({PyFloat(3500), PyFloat(3530)})

CommandPresets == {"Auto", "Hold", "Permanent Hold", "Eco"}

CommandHvacModes == {"heat", "off", "auto"}

GroupCommandPresets == {"Home", "Away", "Eco"}

\* no temperature is being converted
NoConversion ==
    /\ raw_temp = 0
    /\ decoded = None
    /\ payload = None

\* no config flow is followed
NoFlows ==
    /\ entries = <<>>
    /\ flows = <<>>

\* no entry is being set up
NoSetups ==
    /\ hass_data = <<>>
    /\ setups = <<>>

Init ==
    /\ NoConversion
    /\ NoFlows
    /\ NoSetups
    /\ entity \in {"thermostat", "group"}
    /\ temperature_unit \in {"C", "F"}
    /\ IF entity = "thermostat"
          THEN /\ thermostat \in {NewThermostat(d) : d \in ListedThermostats}
               /\ group = NotCreated
          ELSE /\ group \in {NewGroup(d) : d \in RawGroups}
               /\ thermostat = NotCreated
    /\ poll = IdlePoll
    /\ cmd = IdleCmd
    /\ api_call = NoApiCall
    /\ returned = NoReturn

\* the GET that async_update of the followed entity sends
UpdateRequest ==
    IF entity = "thermostat"
        THEN ThermostatGetRequest(thermostat.thermostat_id)
        ELSE GroupsGetRequest

\* what the vendor may answer to a request of the followed entity
OutcomesFor(request) ==
    IF request.method = "PUT" THEN PutOutcomes
    ELSE IF entity = "thermostat" THEN ThermostatGetOutcomes
    ELSE GroupGetOutcomes

\* async_update of the followed entity, from the return of _make_request on
ApplyFetch(result) ==
    IF entity = "thermostat"
        THEN /\ thermostat' =
                    AfterThermostatData(thermostat, GetThermostatData(result))
             /\ UNCHANGED group
        ELSE /\ group' = AfterGroups(group, GetGroups(result))
             /\ UNCHANGED thermostat

\* `not self._thermostat_id` / `not self._group_id`
NoIdentity ==
    IF entity = "thermostat" THEN thermostat.thermostat_id = ""
                             ELSE group.group_id = ""

\* no observation of the latest step is pending
Quiet == api_call = NoApiCall /\ returned = NoReturn

\* a step that completes neither a call nor a handler
Silent == api_call' = NoApiCall /\ returned' = NoReturn

(* async_update called by the host: up to the first await *)
AsyncUpdate ==
    /\ Quiet
    /\ poll.pc = "idle"
    /\ LET task == [IdlePoll EXCEPT !.op = "update"]
       IN  IF NoIdentity
             THEN /\ poll' = IdlePoll
                  /\ returned' = Return("poll", task, FALSE, FALSE)
                  /\ api_call' = NoApiCall
             ELSE /\ poll' = [task EXCEPT !.pc = "get_token",
                                          !.request = UpdateRequest,
                                          !.get_calls = 1]
                  /\ Silent
    /\ UNCHANGED <<entity, temperature_unit, thermostat, group, cmd>>
    /\ UNCHANGED outsideClimate

\* the poll's _make_request has returned
PollReturned(call) ==
    /\ api_call' = call
    /\ poll' = IdlePoll
    /\ IF call.result.raised
          THEN /\ returned' = Return("poll", poll, FALSE, TRUE)
               /\ UNCHANGED <<thermostat, group>>
          ELSE /\ returned' = Return("poll", poll, FALSE, FALSE)
               /\ ApplyFetch(call.result.value)

(* the poll's _make_request: async_ensure_token_valid completes *)
PollToken ==
    /\ Quiet
    /\ poll.pc = "get_token"
    /\ \E token_valid \in BOOLEAN :
          IF RequestSent(token_valid)
            THEN /\ poll' = [poll EXCEPT !.pc = "get_wait",
                                       !.token_valid = token_valid,
                                       !.gets = @ + 1]
                 /\ Silent
                 /\ UNCHANGED <<thermostat, group>>
            ELSE PollReturned(
                    ApiCall("poll", poll.request, token_valid, 0, NoOutcome,
                            NoTokenResult))
    /\ UNCHANGED <<entity, temperature_unit, cmd>>
    /\ UNCHANGED outsideClimate

(* the poll's _make_request: the HTTP request completes *)
PollResponse ==
    /\ Quiet
    /\ poll.pc = "get_wait"
    /\ \E outcome \in OutcomesFor(poll.request) :
          PollReturned(
            ApiCall("poll", poll.request, poll.token_valid, 1, outcome,
                    MakeRequestResult(outcome)))
    /\ UNCHANGED <<entity, temperature_unit, cmd>>
    /\ UNCHANGED outsideClimate

\* early returns without the check of the identity
SetTemperatureRejected_NoIdentityCheck(self, temperature) ==
    \/ temperature = None
    \/ ~self.is_online

\* early returns without the check of the online flag
SetTemperatureRejected_NoOfflineCheck(self, temperature) ==
    \/ temperature = None
    \/ self.thermostat_id = ""

\* async_set_temperature: the early returns
SetTemperatureRejected(self, temperature) ==
    \/ temperature = None
    \/ self.thermostat_id = ""
    \/ ~self.is_online

\* async_set_preset_mode: the early returns
SetPresetModeRejected(self, preset) ==
    \/ self.thermostat_id = ""
    \/ ~self.is_online
    \/ mode_map(preset) = None

\* async_set_hvac_mode: the early returns
SetHvacModeRejected(self) ==
    \/ self.thermostat_id = ""
    \/ ~self.is_online

\* NuheatConductorGroup.async_set_preset_mode: the early return
GroupSetPresetModeRejected(self) == self.group_id = ""

\* branch `if success` that also stores a target and a permanent hold
SetTemperatureSucceeded_Legacy(self) ==
    [self EXCEPT !.target_temperature = Some(PyFloat(3500)),
                 !.schedule_mode = Some(3)]

\* async_set_temperature, branch `if success`
SetTemperatureSucceeded(self) == [self EXCEPT !.schedule_mode = Some(2)]

\* async_set_preset_mode, branch `if success`
SetPresetModeSucceeded(self, mode) == [self EXCEPT !.schedule_mode = mode]

\* NuheatConductorGroup.async_set_preset_mode, branch `if success`
GroupSetPresetModeSucceeded(self, away_mode) ==
    [self EXCEPT !.away_mode = away_mode]

\* a handler that never reconciles
NeedsReconcile_Never(success) == FALSE

\* a handler that reconciles after every PUT
NeedsReconcile_Always(success) == TRUE

\* the `else` of `if success`: whether the handler awaits async_update
NeedsReconcile(success) == ~success

\* the handler returns without having called the API
CmdRejected(op, arg) ==
    /\ cmd' = IdleCmd
    /\ returned' = Return("cmd", NewCmd(op, arg), FALSE, FALSE)
    /\ api_call' = NoApiCall

\* the handler calls the API with a PUT and awaits it
CmdPut(op, arg, request, mode) ==
    /\ cmd' = [NewCmd(op, arg) EXCEPT !.pc = "put_token", !.request = request,
                                 !.mode = mode, !.put_calls = 1]
    /\ Silent

\* async_set_temperature up to the first await, called as op
SetTemperatureCall(op, arg, temperature) ==
    IF SetTemperatureRejected(thermostat, temperature)
        THEN CmdRejected(op, arg)
        ELSE CmdPut(op, arg,
                    SetTargetTemperatureRequest(
                        thermostat.thermostat_id, temperature[1], 2),
                    None)

(* async_set_temperature(temperature=...) *)
AsyncSetTemperature ==
    /\ Quiet
    /\ entity = "thermostat"
    /\ cmd.pc = "idle"
    /\ \E temperature \in CommandTemperatures :
          SetTemperatureCall("set_temperature", "", temperature)
    /\ UNCHANGED <<entity, temperature_unit, thermostat, group, poll>>
    /\ UNCHANGED outsideClimate

(* async_set_preset_mode(preset_mode) *)
AsyncSetPresetMode ==
    /\ Quiet
    /\ entity = "thermostat"
    /\ cmd.pc = "idle"
    /\ \E preset \in CommandPresets :
          IF SetPresetModeRejected(thermostat, preset)
            THEN CmdRejected("set_preset_mode", preset)
            ELSE CmdPut("set_preset_mode", preset,
                        SetScheduleModeRequest(
                            thermostat.thermostat_id, mode_map(preset)[1]),
                        mode_map(preset))
    /\ UNCHANGED <<entity, temperature_unit, thermostat, group, poll>>
    /\ UNCHANGED outsideClimate

(* async_set_hvac_mode(hvac_mode) *)
AsyncSetHvacMode ==
    /\ Quiet
    /\ entity = "thermostat"
    /\ cmd.pc = "idle"
    /\ \E mode \in CommandHvacModes :
          IF SetHvacModeRejected(thermostat)
            THEN CmdRejected("set_hvac_mode", mode)
          ELSE IF mode = "heat"
            THEN IF Truthy(thermostat.target_temperature)
                   THEN SetTemperatureCall("set_hvac_mode", mode,
                                           thermostat.target_temperature)
                   ELSE CmdRejected("set_hvac_mode", mode)
          ELSE IF mode = "off"
            THEN SetTemperatureCall(
                    "set_hvac_mode", mode,
                    Some(min_temp(thermostat, temperature_unit)))
          ELSE CmdRejected("set_hvac_mode", mode)
    /\ UNCHANGED <<entity, temperature_unit, thermostat, group, poll>>
    /\ UNCHANGED outsideClimate

(* NuheatConductorGroup.async_set_preset_mode(preset_mode) *)
GroupAsyncSetPresetMode ==
    /\ Quiet
    /\ entity = "group"
    /\ cmd.pc = "idle"
    /\ \E preset \in GroupCommandPresets :
          LET away_mode == (preset = "Away")
          IN  IF GroupSetPresetModeRejected(group)
                THEN CmdRejected("group_set_preset_mode", preset)
                ELSE CmdPut("group_set_preset_mode", preset,
                            SetGroupAwayModeRequest(group.group_id, away_mode),
                            Some(away_mode))
    /\ UNCHANGED <<entity, temperature_unit, thermostat, group, poll>>
    /\ UNCHANGED outsideClimate

(* NuheatConductorGroup.async_set_hvac_mode(hvac_mode): pass *)
GroupAsyncSetHvacMode ==
    /\ Quiet
    /\ entity = "group"
    /\ cmd.pc = "idle"
    /\ \E mode \in CommandHvacModes :
          CmdRejected("group_set_hvac_mode", mode)
    /\ UNCHANGED <<entity, temperature_unit, thermostat, group, poll>>
    /\ UNCHANGED outsideClimate

\* the optimistic update of the branch `if success` of the handler op
ApplySuccess(op, mode) ==
    IF op = "group_set_preset_mode"
        THEN /\ group' = GroupSetPresetModeSucceeded(group, mode[1])
             /\ UNCHANGED thermostat
    ELSE IF op = "set_preset_mode"
        THEN /\ thermostat' = SetPresetModeSucceeded(thermostat, mode)
             /\ UNCHANGED group
    ELSE /\ thermostat' = SetTemperatureSucceeded(thermostat)
         /\ UNCHANGED group

\* the command's PUT has returned: `if success` ... `else` up to the await
\* inside async_update (which returns at once without an identity)
CmdPutReturned(call) ==
    /\ api_call' = call
    /\ IF call.result.raised
          THEN /\ cmd' = IdleCmd
               /\ returned' = Return("cmd", cmd, FALSE, TRUE)
               /\ UNCHANGED <<thermostat, group>>
          ELSE LET success == IsSuccess(call.result.value)
                   task == [cmd EXCEPT !.success = Some(success)]
               IN  IF ~NeedsReconcile(success)
                     THEN /\ cmd' = IdleCmd
                          /\ returned' = Return("cmd", task, success, FALSE)
                          /\ IF success
                                THEN ApplySuccess(cmd.op, cmd.mode)
                                ELSE UNCHANGED <<thermostat, group>>
                   ELSE IF NoIdentity
                     THEN /\ cmd' = IdleCmd
                          /\ returned' = Return("cmd", task, TRUE, FALSE)
                          /\ UNCHANGED <<thermostat, group>>
                   ELSE /\ cmd' = [task EXCEPT !.pc = "get_token",
                                               !.request = UpdateRequest,
                                               !.mode = None,
                                               !.token_valid = FALSE,
                                               !.get_calls = @ + 1]
                        /\ returned' = NoReturn
                        /\ UNCHANGED <<thermostat, group>>

\* the command's reconciling async_update has returned; the handler then
\* calls async_write_ha_state
CmdGetReturned(call) ==
    /\ api_call' = call
    /\ cmd' = IdleCmd
    /\ IF call.result.raised
          THEN /\ returned' = Return("cmd", cmd, FALSE, TRUE)
               /\ UNCHANGED <<thermostat, group>>
          ELSE /\ returned' = Return("cmd", cmd, TRUE, FALSE)
               /\ ApplyFetch(call.result.value)

(* the command's PUT: async_ensure_token_valid completes *)
CmdPutToken ==
    /\ Quiet
    /\ cmd.pc = "put_token"
    /\ \E token_valid \in BOOLEAN :
          IF RequestSent(token_valid)
            THEN /\ cmd' = [cmd EXCEPT !.pc = "put_wait",
                                     !.token_valid = token_valid,
                                     !.puts = @ + 1]
                 /\ Silent
                 /\ UNCHANGED <<thermostat, group>>
            ELSE CmdPutReturned(
                    ApiCall("cmd", cmd.request, token_valid, 0, NoOutcome,
                            NoTokenResult))
    /\ UNCHANGED <<entity, temperature_unit, poll>>
    /\ UNCHANGED outsideClimate

(* the command's PUT: the HTTP request completes *)
CmdPutResponse ==
    /\ Quiet
    /\ cmd.pc = "put_wait"
    /\ \E outcome \in OutcomesFor(cmd.request) :
          CmdPutReturned(
            ApiCall("cmd", cmd.request, cmd.token_valid, 1, outcome,
                    MakeRequestResult(outcome)))
    /\ UNCHANGED <<entity, temperature_unit, poll>>
    /\ UNCHANGED outsideClimate

(* the command's reconciling GET: async_ensure_token_valid completes *)
CmdGetToken ==
    /\ Quiet
    /\ cmd.pc = "get_token"
    /\ \E token_valid \in BOOLEAN :
          IF RequestSent(token_valid)
            THEN /\ cmd' = [cmd EXCEPT !.pc = "get_wait",
                                     !.token_valid = token_valid,
                                     !.gets = @ + 1]
                 /\ Silent
                 /\ UNCHANGED <<thermostat, group>>
            ELSE CmdGetReturned(
                    ApiCall("cmd", cmd.request, token_valid, 0, NoOutcome,
                            NoTokenResult))
    /\ UNCHANGED <<entity, temperature_unit, poll>>
    /\ UNCHANGED outsideClimate

(* the command's reconciling GET: the HTTP request completes *)
CmdGetResponse ==
    /\ Quiet
    /\ cmd.pc = "get_wait"
    /\ \E outcome \in OutcomesFor(cmd.request) :
          CmdGetReturned(
            ApiCall("cmd", cmd.request, cmd.token_valid, 1, outcome,
                    MakeRequestResult(outcome)))
    /\ UNCHANGED <<entity, temperature_unit, poll>>
    /\ UNCHANGED outsideClimate

(* the observation of the latest step is dropped; the program's state is *)
(* untouched                                                             *)
Forget ==
    /\ ~Quiet
    /\ Silent
    /\ UNCHANGED <<entity, temperature_unit, thermostat, group, poll, cmd>>
    /\ UNCHANGED outsideClimate

Next ==
    \/ AsyncUpdate
    \/ PollToken
    \/ PollResponse
    \/ AsyncSetTemperature
    \/ AsyncSetPresetMode
    \/ AsyncSetHvacMode
    \/ GroupAsyncSetPresetMode
    \/ GroupAsyncSetHvacMode
    \/ CmdPutToken
    \/ CmdPutResponse
    \/ CmdGetToken
    \/ CmdGetResponse
    \/ Forget

Spec == Init /\ [][Next]_vars

----------------------------------------------------------------------------
(* The legacy variant (nuheat_conductor/climate.py): one thermostat entity,  *)
(* followed in the variables of the thermostat above.  Temperatures are the  *)
(* vendor's numbers as they come, never scaled; there are no groups, no      *)
(* presets and no reconciliation.                                            *)

LegacyThermostatKeys ==
    {"serialNumber", "temperature", "setPointTemp", "minTemp", "maxTemp",
     "scheduleMode", "heating", "online"}

\* raw thermostat records of the v2 API; a temperature of 0 is a number the
\* code takes for false
LegacyRawThermostats ==
    {d \in [serialNumber : Opt({"SN1"}),
            temperature : Opt({PyFloat(6800)}),
            setPointTemp : Opt({PyFloat(0), PyFloat(7000)}),
            minTemp : Opt({PyFloat(0), PyFloat(4500)}),
            maxTemp : Opt({PyFloat(9000)}),
            scheduleMode : Opt({1, 3}),
            heating : Opt({TRUE}),
            online : Opt({FALSE})] :
        /\ (d.temperature = <<>>) = (d.maxTemp = <<>>)
        /\ d.serialNumber = <<>> => \A k \in LegacyThermostatKeys : d[k] = <<>>}

LegacyListedThermostats ==
    LegacyRawThermostats
        \cup {[d EXCEPT !.serialNumber = <<>>] : d \in LegacyRawThermostats}

\* GET /api/v2/Thermostat/{id}
LegacyGetOutcomes ==
    Outcomes({PyDict(d) : d \in LegacyRawThermostats} \cup {PyList(<<>>)})

\* _make_request from websession.request on: 200 returns the body, every
\* other status (204 too) returns None
LegacyMakeRequestResult(outcome) ==
    CASE outcome.kind = "timeout" -> Returned(PyNone)
      [] outcome.kind = "error" -> Returned(PyNone)
      [] outcome.kind = "response" /\ outcome.status = 401 -> Returned(PyNone)
      [] outcome.kind = "response" /\ outcome.status = 200 ->
            IF outcome.body = InvalidJson
                THEN Returned(PyNone)
                ELSE Returned(outcome.body)
      [] OTHER -> Returned(PyNone)

\* the request of get_thermostat_data
LegacyGetRequest(thermostat_id) ==
    [method |-> "GET", endpoint |-> "/api/v2/Thermostat/" \o thermostat_id,
     json |-> <<>>]

\* the request of set_target_temperature
LegacySetTargetTemperatureRequest(thermostat_id, temperature, mode) ==
    [method |-> "PUT", endpoint |-> "/api/v2/Thermostat/" \o thermostat_id,
     json |-> [setPointTemp |-> temperature, scheduleMode |-> mode]]

\* the request of set_schedule_mode
LegacySetScheduleModeRequest(thermostat_id, mode) ==
    [method |-> "PUT", endpoint |-> "/api/v2/Thermostat/" \o thermostat_id,
     json |-> [scheduleMode |-> mode]]

\* _update_from_data
LegacyUpdateFromData(self, data) ==
    IF IsEmptyDict(data)
        THEN self
        ELSE [self EXCEPT
                !.current_temperature = GetOpt(data, "temperature"),
                !.target_temperature = GetOpt(data, "setPointTemp"),
                !.min_temperature = GetOpt(data, "minTemp"),
                !.max_temperature = GetOpt(data, "maxTemp"),
                !.schedule_mode = GetOpt(data, "scheduleMode"),
                !.is_heating = Get(data, "heating", FALSE),
                !.is_online = Get(data, "online", TRUE)]

\* __init__
LegacyNewThermostat(thermostat_data) ==
    LegacyUpdateFromData(
        BlankThermostat(Get(thermostat_data, "serialNumber", "")),
        thermostat_data)

\* property min_temp with the fallback of the preset variant: only for None
legacy_min_temp_NoneOnly(self) ==
    IF self.min_temperature # None
        THEN self.min_temperature[1]
        ELSE PyFloat(4100)

\* property min_temp: self._min_temperature or 41.0
legacy_min_temp(self) ==
    IF Truthy(self.min_temperature)
        THEN self.min_temperature[1]
        ELSE PyFloat(4100)

\* property hvac_mode
legacy_hvac_mode(self) ==
    IF ~self.is_online THEN "off"
    ELSE IF self.schedule_mode = Some(1) THEN "auto"
    ELSE "heat"

\* async_update from the return of get_thermostat_data on
LegacyAfterThermostatData(self, data) ==
    IF data # None /\ ~IsEmptyDict(data[1])
        THEN [LegacyUpdateFromData(self, data[1]) EXCEPT !.attr_available = TRUE]
        ELSE [self EXCEPT !.attr_available = FALSE]

\* async_set_temperature, branch `if success`
LegacySetTemperatureSucceeded(self, temperature) ==
    [self EXCEPT !.target_temperature = Some(temperature),
                 !.schedule_mode = Some(3)]

\* async_set_hvac_mode, AUTO, branch `if success`
LegacySetAutoSucceeded(self) == [self EXCEPT !.schedule_mode = Some(1)]

LegacyInit ==
    /\ NoConversion
    /\ NoFlows
    /\ NoSetups
    /\ entity = "legacy_thermostat"
    /\ temperature_unit = "F"
    /\ thermostat \in {LegacyNewThermostat(d) : d \in LegacyListedThermostats}
    /\ group = NotCreated
    /\ poll = IdlePoll
    /\ cmd = IdleCmd
    /\ api_call = NoApiCall
    /\ returned = NoReturn

(* async_update called by the host: up to the first await *)
LegacyAsyncUpdate ==
    /\ Quiet
    /\ poll.pc = "idle"
    /\ LET task == [IdlePoll EXCEPT !.op = "update"]
       IN  IF thermostat.thermostat_id = ""
             THEN /\ poll' = IdlePoll
                  /\ returned' = Return("poll", task, FALSE, FALSE)
                  /\ api_call' = NoApiCall
             ELSE /\ poll' = [task EXCEPT
                                !.pc = "get_token",
                                !.request =
                                    LegacyGetRequest(thermostat.thermostat_id),
                                !.get_calls = 1]
                  /\ Silent
    /\ UNCHANGED <<entity, temperature_unit, thermostat, group, cmd>>
    /\ UNCHANGED outsideClimate

\* the poll's _make_request has returned
LegacyPollReturned(call) ==
    /\ api_call' = call
    /\ poll' = IdlePoll
    /\ returned' = Return("poll", poll, FALSE, FALSE)
    /\ thermostat' =
          LegacyAfterThermostatData(
              thermostat, GetThermostatData(call.result.value))

(* the poll's _make_request: async_ensure_token_valid completes *)
LegacyPollToken ==
    /\ Quiet
    /\ poll.pc = "get_token"
    /\ \E token_valid \in BOOLEAN :
          IF RequestSent(token_valid)
            THEN /\ poll' = [poll EXCEPT !.pc = "get_wait",
                                       !.token_valid = token_valid,
                                       !.gets = @ + 1]
                 /\ Silent
                 /\ UNCHANGED thermostat
            ELSE LegacyPollReturned(
                    ApiCall("poll", poll.request, token_valid, 0, NoOutcome,
                            NoTokenResult))
    /\ UNCHANGED <<entity, temperature_unit, group, cmd>>
    /\ UNCHANGED outsideClimate

(* the poll's _make_request: the HTTP request completes *)
LegacyPollResponse ==
    /\ Quiet
    /\ poll.pc = "get_wait"
    /\ \E outcome \in LegacyGetOutcomes :
          LegacyPollReturned(
            ApiCall("poll", poll.request, poll.token_valid, 1, outcome,
                    LegacyMakeRequestResult(outcome)))
    /\ UNCHANGED <<entity, temperature_unit, group, cmd>>
    /\ UNCHANGED outsideClimate

\* temperatures a set_temperature service call may carry
LegacyCommandTemperatures == Opt({PyFloat(7200)})

\* async_set_temperature: the early return
LegacySetTemperatureRejected(self, temperature) ==
    \/ temperature = None
    \/ self.thermostat_id = ""

\* async_set_temperature up to the first await, called as op
LegacySetTemperatureCall(op, arg, temperature) ==
    IF LegacySetTemperatureRejected(thermostat, temperature)
        THEN CmdRejected(op, arg)
        ELSE CmdPut(op, arg,
                    LegacySetTargetTemperatureRequest(
                        thermostat.thermostat_id, temperature[1], 3),
                    None)

(* async_set_temperature(temperature=...) *)
LegacyAsyncSetTemperature ==
    /\ Quiet
    /\ cmd.pc = "idle"
    /\ \E temperature \in LegacyCommandTemperatures :
          LegacySetTemperatureCall("set_temperature", "", temperature)
    /\ UNCHANGED <<entity, temperature_unit, thermostat, group, poll>>
    /\ UNCHANGED outsideClimate

\* async_set_hvac_mode up to the first await
LegacySetHvacModeCall(mode) ==
    IF thermostat.thermostat_id = ""
        THEN CmdRejected("set_hvac_mode", mode)
    ELSE IF mode = "auto"
        THEN CmdPut("set_hvac_mode", mode,
                    LegacySetScheduleModeRequest(thermostat.thermostat_id, 1),
                    Some(1))
    ELSE IF mode = "heat"
        THEN IF Truthy(thermostat.target_temperature)
               THEN LegacySetTemperatureCall("set_hvac_mode", mode,
                                             thermostat.target_temperature)
               ELSE CmdRejected("set_hvac_mode", mode)
    ELSE IF mode = "off"
        THEN LegacySetTemperatureCall("set_hvac_mode", mode,
                                      Some(legacy_min_temp(thermostat)))
    ELSE CmdRejected("set_hvac_mode", mode)

(* async_set_hvac_mode(hvac_mode) *)
LegacyAsyncSetHvacMode ==
    /\ Quiet
    /\ cmd.pc = "idle"
    /\ \E mode \in CommandHvacModes : LegacySetHvacModeCall(mode)
    /\ UNCHANGED <<entity, temperature_unit, thermostat, group, poll>>
    /\ UNCHANGED outsideClimate

\* the command's PUT has returned: `if success`, and nothing otherwise
LegacyCmdReturned(call) ==
    LET success == IsSuccess(call.result.value)
        task == [cmd EXCEPT !.success = Some(success)]
    IN  /\ api_call' = call
        /\ cmd' = IdleCmd
        /\ returned' = Return("cmd", task, success, FALSE)
        /\ thermostat' =
              IF ~success THEN thermostat
              ELSE IF cmd.mode = Some(1)
                THEN LegacySetAutoSucceeded(thermostat)
                ELSE LegacySetTemperatureSucceeded(
                        thermostat, cmd.request.json.setPointTemp)

(* the command's PUT: async_ensure_token_valid completes *)
LegacyCmdToken ==
    /\ Quiet
    /\ cmd.pc = "put_token"
    /\ \E token_valid \in BOOLEAN :
          IF RequestSent(token_valid)
            THEN /\ cmd' = [cmd EXCEPT !.pc = "put_wait",
                                     !.token_valid = token_valid,
                                     !.puts = @ + 1]
                 /\ Silent
                 /\ UNCHANGED thermostat
            ELSE LegacyCmdReturned(
                    ApiCall("cmd", cmd.request, token_valid, 0, NoOutcome,
                            NoTokenResult))
    /\ UNCHANGED <<entity, temperature_unit, group, poll>>
    /\ UNCHANGED outsideClimate

(* the command's PUT: the HTTP request completes *)
LegacyCmdResponse ==
    /\ Quiet
    /\ cmd.pc = "put_wait"
    /\ \E outcome \in PutOutcomes :
          LegacyCmdReturned(
            ApiCall("cmd", cmd.request, cmd.token_valid, 1, outcome,
                    LegacyMakeRequestResult(outcome)))
    /\ UNCHANGED <<entity, temperature_unit, group, poll>>
    /\ UNCHANGED outsideClimate

LegacyNext ==
    \/ LegacyAsyncUpdate
    \/ LegacyPollToken
    \/ LegacyPollResponse
    \/ LegacyAsyncSetTemperature
    \/ LegacyAsyncSetHvacMode
    \/ LegacyCmdToken
    \/ LegacyCmdResponse
    \/ Forget

LegacySpec == LegacyInit /\ [][LegacyNext]_vars

----------------------------------------------------------------------------
(* A vendor temperature decoded by _update_from_data and encoded again by   *)
(* set_target_temperature                                                   *)

MaxRawTemperature == 4100

\* no climate entity is followed
NoClimate ==
    /\ entity = "none"
    /\ temperature_unit = "F"
    /\ thermostat = NotCreated
    /\ group = NotCreated
    /\ poll = IdlePoll
    /\ cmd = IdleCmd
    /\ api_call = NoApiCall
    /\ returned = NoReturn

RoundTripInit ==
    /\ raw_temp \in 0..MaxRawTemperature
    /\ decoded = None
    /\ payload = None
    /\ NoClimate
    /\ NoFlows
    /\ NoSetups

(* _update_from_data: setpoint / 100.0 *)
Decode ==
    /\ decoded = None
    /\ decoded' = ConvertTemperature(Some(raw_temp))
    /\ UNCHANGED <<raw_temp, payload, climateVars, flowVars, entryVars>>

(* set_target_temperature: the setPointTemp of the PUT body *)
Encode ==
    /\ decoded # None
    /\ payload = None
    /\ payload' =
          Some(SetTargetTemperatureRequest("SN1", decoded[1], 2)
                    .json.setPointTemp)
    /\ UNCHANGED <<raw_temp, decoded, climateVars, flowVars, entryVars>>

RoundTripNext ==
    \/ Decode
    \/ Encode

RoundTripSpec == RoundTripInit /\ [][RoundTripNext]_vars

----------------------------------------------------------------------------
(* NuheatConductorOAuth2FlowHandler (config_flow.py).                        *)
(*                                                                           *)
(* The host owns the config entries and the flows.  Of the host, the model   *)
(* takes what the handler calls: async_set_unique_id puts the unique id in   *)
(* the flow and returns the entry of the integration that has it, None when  *)
(* there is none; _async_current_entries returns the entries of the          *)
(* integration; the inherited async_step_user sends the user to the vendor's *)
(* authorization page and, when the user comes back with a token, calls      *)
(* async_oauth_create_entry; async_create_entry makes the host add an entry  *)
(* that carries the flow's unique id.  Several flows may be in progress at   *)
(* a time; a host that refuses some of them only removes behaviours.         *)

\* const.DOMAIN
Domain == "nuheat_conductor"

MaxFlows == 3

\* the token data an OAuth round may deliver
TokenData == {"token_a", "token_b"}

NoResult == [type |-> "none", reason |-> ""]

\* self.async_abort(reason=...)
Abort(reason) == [type |-> "abort", reason |-> reason]

\* self.async_show_form(step_id=...)
ShowForm(step_id) == [type |-> "form", reason |-> step_id]

\* the external step of the inherited async_step_user
ExternalStep == [type |-> "external", reason |-> "auth"]

\* self.async_create_entry(title=..., data=data)
CreateEntry == [type |-> "create_entry", reason |-> ""]

\* a flow that has not been started
NoFlow ==
    [source |-> "none", step |-> "none", unique_id |-> None, data |-> None,
     result |-> NoResult]

\* self._async_current_entries()
CurrentEntries == entries

\* an async_set_unique_id that finds no entry
ExistingEntry_None(unique_id) == None

\* the entry that async_set_unique_id(unique_id) returns: the position of
\* the entry that has the unique id, None when there is none
ExistingEntry(unique_id) ==
    LET same == {i \in DOMAIN entries : entries[i].unique_id = Some(unique_id)}
    IN  IF same = {} THEN None
        ELSE Some(CHOOSE i \in same : \A j \in same : i <= j)

\* async_step_user without the check of the current entries
StepUser_NoInstanceCheck(flow) ==
    [flow EXCEPT !.unique_id = Some(Domain),
                 !.step = "oauth",
                 !.result = ExternalStep]

\* async_step_user: the flow after the step
StepUser(flow) ==
    LET with_id == [flow EXCEPT !.unique_id = Some(Domain)]
    IN  IF CurrentEntries # <<>>
            THEN [with_id EXCEPT !.step = "done",
                                 !.result = Abort("single_instance_allowed")]
            ELSE [with_id EXCEPT !.step = "oauth",
                                 !.result = ExternalStep]

\* async_step_reauth_confirm: the flow after the step
StepReauthConfirm(flow, user_input) ==
    IF user_input = None
        THEN [flow EXCEPT !.step = "reauth_confirm",
                          !.result = ShowForm("reauth_confirm")]
        ELSE StepUser(flow)

FlowInit ==
    /\ entries = <<>>
    /\ flows = [f \in 1..MaxFlows |-> NoFlow]
    /\ NoClimate
    /\ NoConversion
    /\ NoSetups

\* the host starts the flows in the order of their ids
NextFlow(f) ==
    /\ flows[f].source = "none"
    /\ \A g \in 1..(f - 1) : flows[g].source # "none"

(* the user adds the integration: async_step_user *)
AsyncStepUser ==
    /\ \E f \in 1..MaxFlows :
          /\ NextFlow(f)
          /\ flows' = [flows EXCEPT
                          ![f] = StepUser([NoFlow EXCEPT !.source = "user"])]
    /\ UNCHANGED <<entries, climateVars, conversionVars, entryVars>>

(* the host asks for reauthentication of the entry: async_step_reauth, *)
(* which shows the confirmation form                                   *)
AsyncStepReauth ==
    /\ entries # <<>>
    /\ \E f \in 1..MaxFlows :
          /\ NextFlow(f)
          /\ flows' = [flows EXCEPT
                          ![f] = StepReauthConfirm(
                                    [NoFlow EXCEPT !.source = "reauth"], None)]
    /\ UNCHANGED <<entries, climateVars, conversionVars, entryVars>>

(* the user submits the confirmation form: async_step_reauth_confirm *)
AsyncStepReauthConfirm ==
    /\ \E f \in 1..MaxFlows :
          /\ flows[f].step = "reauth_confirm"
          /\ flows' = [flows EXCEPT
                          ![f] = StepReauthConfirm(flows[f], Some("submit"))]
    /\ UNCHANGED <<entries, climateVars, conversionVars, entryVars>>

(* the user comes back from the vendor with a token:                    *)
(* async_oauth_create_entry(data); reload_ok is whether async_reload    *)
(* returns rather than raises                                           *)
AsyncOauthCreateEntry ==
    /\ \E f \in 1..MaxFlows, data \in TokenData, reload_ok \in BOOLEAN :
          /\ flows[f].step = "oauth"
          /\ LET existing_entry == ExistingEntry(Domain)
                 done == [flows[f] EXCEPT !.step = "done", !.data = Some(data)]
             IN  IF existing_entry # None
                   THEN /\ entries' =
                              [entries EXCEPT
                                  ![existing_entry[1]] =
                                      [@ EXCEPT
                                          !.data = data,
                                          !.reloads =
                                              IF reload_ok THEN @ + 1 ELSE @]]
                        /\ flows' =
                              [flows EXCEPT
                                  ![f] = [done EXCEPT
                                            !.result =
                                                IF reload_ok
                                                  THEN Abort("reauth_successful")
                                                  ELSE Abort("oauth_error")]]
                   ELSE /\ entries' =
                              Append(entries,
                                     [unique_id |-> flows[f].unique_id,
                                      data |-> data, reloads |-> 0])
                        /\ flows' =
                              [flows EXCEPT
                                  ![f] = [done EXCEPT !.result = CreateEntry]]
    /\ UNCHANGED <<climateVars, conversionVars, entryVars>>

FlowNext ==
    \/ AsyncStepUser
    \/ AsyncStepReauth
    \/ AsyncStepReauthConfirm
    \/ AsyncOauthCreateEntry

FlowSpec == FlowInit /\ [][FlowNext]_vars

----------------------------------------------------------------------------
(* async_setup_entry and async_unload_entry (__init__.py).                   *)
(*                                                                           *)
(* The host sets an entry up when it is not loaded (for the first time, on   *)
(* a reload, or again after a setup that failed) and unloads it when it is   *)
(* loaded; after an unload that failed it does neither.  Both functions are  *)
(* coroutines; the setups and unloads of different entries interleave at     *)
(* their awaits.  A session is named by the number of the setup call of its  *)
(* entry that made it.  async_forward_entry_setups returns: the host logs    *)
(* what a platform raises.                                                   *)

EntryIds == {"entry_1", "entry_2"}

MaxSetups == 2

\* hass.data without the key DOMAIN
EmptyHassData ==
    [domain |-> FALSE, sessions |-> [e \in EntryIds |-> None]]

\* an unload that forgets the session whatever the platforms answer
AfterUnload_Always(data, entry_id, unload_ok) ==
    [data EXCEPT !.sessions[entry_id] = None]

\* async_unload_entry from the return of async_unload_platforms on:
\* hass.data[DOMAIN].pop(entry.entry_id, None) if unload_ok
AfterUnload(data, entry_id, unload_ok) ==
    IF unload_ok
        THEN [data EXCEPT !.sessions[entry_id] = None]
        ELSE data

\* hass.data.setdefault(DOMAIN, {}); hass.data[DOMAIN][entry.entry_id] = session
StoreSession(data, entry_id, session) ==
    [data EXCEPT !.domain = TRUE, !.sessions[entry_id] = Some(session)]

\* an entry that the host has not set up yet
NewEntry ==
    [state |-> "not_loaded", calls |-> 0, last_setup |-> "none",
     unloaded |-> FALSE, forwards |-> 0]

EntryInit ==
    /\ hass_data = EmptyHassData
    /\ setups = [e \in EntryIds |-> NewEntry]
    /\ NoClimate
    /\ NoConversion
    /\ NoFlows

(* the host calls async_setup_entry(hass, entry): up to the await of *)
(* async_get_config_entry_implementation                              *)
AsyncSetupEntry ==
    /\ \E e \in EntryIds :
          /\ setups[e].state \in {"not_loaded", "setup_error"}
          /\ setups[e].calls < MaxSetups
          /\ setups' = [setups EXCEPT ![e].state = "setup_implementation",
                                      ![e].calls = @ + 1,
                                      ![e].unloaded = FALSE]
    /\ UNCHANGED <<hass_data, climateVars, conversionVars, flowVars>>

(* async_get_config_entry_implementation returns the implementation, or *)
(* raises when none is registered, and the exception leaves the setup   *)
SetupImplementation ==
    /\ \E e \in EntryIds, available \in BOOLEAN :
          /\ setups[e].state = "setup_implementation"
          /\ setups' =
                IF available
                    THEN [setups EXCEPT ![e].state = "setup_token"]
                    ELSE [setups EXCEPT ![e].state = "setup_error",
                                        ![e].last_setup = "raised"]
    /\ UNCHANGED <<hass_data, climateVars, conversionVars, flowVars>>

(* session.async_ensure_token_valid() completes: `return False` when it *)
(* raised; else the session is stored and the platforms are forwarded   *)
SetupTokenValid ==
    /\ \E e \in EntryIds, token_valid \in BOOLEAN :
          /\ setups[e].state = "setup_token"
          /\ IF token_valid
               THEN /\ hass_data' = StoreSession(hass_data, e, setups[e].calls)
                    /\ setups' = [setups EXCEPT ![e].state = "setup_forward",
                                                ![e].forwards = @ + 1]
               ELSE /\ hass_data' = hass_data
                    /\ setups' = [setups EXCEPT ![e].state = "setup_error",
                                                ![e].last_setup = "false"]
    /\ UNCHANGED <<climateVars, conversionVars, flowVars>>

(* async_forward_entry_setups returns: `return True` *)
SetupForwarded ==
    /\ \E e \in EntryIds :
          /\ setups[e].state = "setup_forward"
          /\ setups' = [setups EXCEPT ![e].state = "loaded",
                                      ![e].last_setup = "true"]
    /\ UNCHANGED <<hass_data, climateVars, conversionVars, flowVars>>

(* the host calls async_unload_entry(hass, entry): up to the await of *)
(* async_unload_platforms                                              *)
AsyncUnloadEntry ==
    /\ \E e \in EntryIds :
          /\ setups[e].state = "loaded"
          /\ setups' = [setups EXCEPT ![e].state = "unloading"]
    /\ UNCHANGED <<hass_data, climateVars, conversionVars, flowVars>>

(* async_unload_platforms returns unload_ok *)
UnloadPlatforms ==
    /\ \E e \in EntryIds, unload_ok \in BOOLEAN :
          /\ setups[e].state = "unloading"
          /\ hass_data' = AfterUnload(hass_data, e, unload_ok)
          /\ setups' =
                IF unload_ok
                    THEN [setups EXCEPT ![e].state = "not_loaded",
                                        ![e].unloaded = TRUE]
                    ELSE [setups EXCEPT ![e].state = "failed_unload"]
    /\ UNCHANGED <<climateVars, conversionVars, flowVars>>

EntryNext ==
    \/ AsyncSetupEntry
    \/ SetupImplementation
    \/ SetupTokenValid
    \/ SetupForwarded
    \/ AsyncUnloadEntry
    \/ UnloadPlatforms

EntrySpec == EntryInit /\ [][EntryNext]_vars

----------------------------------------------------------------------------
(* Properties *)

\* the canonical record that a raw thermostat record stands for, written from
\* the data model: a temperature is the integer over 100, null when absent;
\* the schedule mode is copied, unknown when absent; online defaults to true;
\* heating is the raw flag (false when absent) and never true when offline
RawCanonical(raw) ==
    LET temp(key) ==
            IF raw[key] = <<>> THEN <<>>
            ELSE <<[whole |-> raw[key][1] \div 100, cents |-> raw[key][1] % 100]>>
        online == IF raw.online = <<>> THEN TRUE ELSE raw.online[1]
        heating == IF raw.isHeating = <<>> THEN FALSE ELSE raw.isHeating[1]
    IN  [current_temperature |-> temp("currentTemperature"),
         target_temperature |-> temp("setPointTemp"),
         min_temperature |-> temp("minTemp"),
         max_temperature |-> temp("maxTemp"),
         schedule_mode |-> raw.scheduleMode,
         is_heating |-> online /\ heating,
         is_online |-> online]

\* the call that returned in the latest step is a thermostat fetch that
\* yielded a non-empty record
FetchedRecord(call) ==
    /\ entity = "thermostat"
    /\ call.request.method = "GET"
    /\ call.result.value.type = "dict"
    /\ ~IsEmptyDict(call.result.value.val)

\* C1: in every reachable state of the thermostat entity, an offline
\* thermostat has its is_heating flag false, its derived action OFF and its
\* derived mode OFF, whatever the raw record carried in isHeating.
C1_OfflineNeverHeating ==
    (entity = "thermostat" /\ ~thermostat.is_online) =>
        /\ ~thermostat.is_heating
        /\ hvac_action(thermostat) = "off"
        /\ hvac_mode(thermostat) = "off"

\* a poll has just delivered a record that says offline and heating
C1_Witness ==
    /\ FetchedRecord(api_call)
    /\ api_call.by = "poll"
    /\ api_call.result.value.val.online = <<FALSE>>
    /\ api_call.result.value.val.isHeating = <<TRUE>>
    /\ ~thermostat.is_online

\* the handler async_set_temperature has returned in the latest step after
\* its PUT failed
SetTemperatureFailed(ret) ==
    /\ entity = "thermostat"
    /\ ret.by = "cmd"
    /\ ret.op = "set_temperature"
    /\ ret.success = Some(FALSE)

\* C2 as stated: after a failed set_temperature a re-fetch has been sent and
\* the republished state matches the re-fetched raw record in every
\* canonical field.
C2_Original ==
    SetTemperatureFailed(returned) =>
        /\ returned.gets = 1
        /\ returned.wrote
        /\ api_call.request = ThermostatGetRequest(thermostat.thermostat_id)
        /\ api_call.result.value.type = "dict"
        /\ Canonical(thermostat) = RawCanonical(api_call.result.value.val)

\* C2 (amended): after a failed set_temperature the handler has attempted
\* exactly one re-fetch of that thermostat before it republishes; when the
\* re-fetch returns a non-empty record the republished state matches that
\* record in every canonical field and the entity is available; when the
\* re-fetch fails or returns an empty record the canonical record is left as
\* it was before the re-fetch returned and the entity is unavailable.
C2_ReconcileAfterFailure ==
    [][SetTemperatureFailed(returned') =>
        /\ returned'.get_calls = 1
        /\ returned'.wrote
        /\ api_call'.by = "cmd"
        /\ api_call'.request = ThermostatGetRequest(thermostat.thermostat_id)
        /\ IF FetchedRecord(api_call')
             THEN /\ Canonical(thermostat') =
                        RawCanonical(api_call'.result.value.val)
                  /\ thermostat'.attr_available
             ELSE /\ Canonical(thermostat') = Canonical(thermostat)
                  /\ ~thermostat'.attr_available]_vars

\* a failed set_temperature has been reconciled with a record whose schedule
\* mode is not the temporary hold of the command
C2_Witness ==
    /\ SetTemperatureFailed(returned)
    /\ FetchedRecord(api_call)
    /\ returned.puts = 1
    /\ returned.gets = 1
    /\ thermostat.schedule_mode # Some(2)

\* C3: the step in which a set_temperature command succeeds changes the
\* schedule mode to TEMPORARY_HOLD (2) and nothing else of the thermostat
\* (temperatures, bounds, heating, online and availability stay); no step in
\* which a thermostat command succeeds changes is_online.
C3_SuccessOnlySetsHold ==
    [][(entity = "thermostat" /\ returned'.by = "cmd"
            /\ returned'.success = Some(TRUE)) =>
        /\ thermostat'.is_online = thermostat.is_online
        /\ returned'.op \in {"set_temperature", "set_hvac_mode"} =>
              /\ thermostat'.schedule_mode = Some(2)
              /\ \A f \in DOMAIN thermostat \ {"schedule_mode"} :
                    thermostat'[f] = thermostat[f]]_vars

\* a set_temperature has succeeded on a thermostat that was in another
\* schedule mode and has a target that is not the requested temperature
C3_Witness ==
    /\ entity = "thermostat"
    /\ returned.by = "cmd"
    /\ returned.op = "set_temperature"
    /\ returned.success = Some(TRUE)
    /\ api_call.request.json.setPointTemp = 3500
    /\ thermostat.schedule_mode = Some(2)
    /\ thermostat.target_temperature = Some(PyFloat(3530))

\* the followed entity has an empty identity
EmptyIdentity ==
    \/ entity = "thermostat" /\ thermostat.thermostat_id = ""
    \/ entity = "group" /\ group.group_id = ""

\* a handler invocation that called the API not once and did not republish
NothingDone(ret) ==
    /\ ret.put_calls = 0
    /\ ret.puts = 0
    /\ ret.get_calls = 0
    /\ ret.gets = 0
    /\ ~ret.wrote

\* C4: for a thermostat with an empty serial number and for a group with an
\* empty group id, every step (every command and every update call) leaves
\* the whole entity, the availability flag included, unchanged, puts no
\* request in flight and completes no request.
C4_NoIdentityNoEffect ==
    [][EmptyIdentity =>
        /\ thermostat' = thermostat
        /\ group' = group
        /\ cmd' = IdleCmd
        /\ poll' = IdlePoll
        /\ api_call' = NoApiCall
        /\ NothingDone(returned')]_vars

\* set_temperature has been called on an online thermostat without identity
C4_Witness ==
    /\ entity = "thermostat"
    /\ thermostat.thermostat_id = ""
    /\ thermostat.is_online
    /\ returned.by = "cmd"
    /\ returned.op = "set_temperature"

\* a command handler is called in this step
CommandCalled == cmd.pc = "idle" /\ (cmd'.pc # "idle" \/ returned'.by = "cmd")

\* C5: the feature set of a thermostat is empty while it is offline and is
\* temperature-set plus preset-set while it is online; a command called
\* while the thermostat is offline puts no request in flight and leaves the
\* thermostat unchanged.
C5_OfflineWithdrawsControls ==
    /\ [](entity = "thermostat" =>
            supported_features(thermostat) =
                IF thermostat.is_online
                    THEN {"TARGET_TEMPERATURE", "PRESET_MODE"}
                    ELSE {})
    /\ [][(entity = "thermostat" /\ ~thermostat.is_online /\ CommandCalled) =>
            /\ cmd' = IdleCmd
            /\ api_call' = NoApiCall
            /\ NothingDone(returned')
            /\ thermostat' = thermostat]_vars

\* set_temperature has been called on an offline thermostat with an identity
C5_Witness ==
    /\ entity = "thermostat"
    /\ thermostat.thermostat_id # ""
    /\ ~thermostat.is_online
    /\ returned.by = "cmd"
    /\ returned.op = "set_temperature"

C7_NoTokenNoRequest ==
    (api_call.by # "none" /\ ~api_call.token_valid) =>
        /\ api_call.sent = 0
        /\ api_call.outcome = NoOutcome
        /\ api_call.result = Returned(PyNone)
        /\ api_call.by = "poll" => returned.gets = 0
        /\ (api_call.by = "cmd" /\ api_call.request.method = "PUT") =>
              cmd.puts = 0 /\ returned.puts = 0
        /\ (api_call.by = "cmd" /\ api_call.request.method = "GET") =>
              returned.gets = 0

\* the PUT of a command has failed for want of a token
C7_Witness ==
    /\ api_call.by = "cmd"
    /\ api_call.request.method = "PUT"
    /\ ~api_call.token_valid
    /\ cmd.pc = "get_token"

\* the reconciliation is pending or in flight
Reconciling == cmd.pc \in {"get_token", "get_wait"}

\* C8 as stated: an invocation sends at most one HTTP request; a command
\* that called the API has sent exactly one PUT, and exactly one GET if the
\* PUT failed and none otherwise; the GET comes after the PUT has completed.
C8_Original ==
    /\ api_call.sent <= 1
    /\ Reconciling => cmd.success = Some(FALSE)
    /\ (returned.by = "cmd" /\ returned.put_calls = 1) =>
          /\ returned.puts = 1
          /\ returned.gets = IF returned.success = Some(TRUE) THEN 0 ELSE 1

\* C8 (amended): an invocation of the request operation sends at most one
\* HTTP request, exactly one when the token is obtained; a command that
\* called the API has made exactly one PUT invocation, and exactly one
\* reconciling fetch invocation if the PUT invocation failed and none
\* otherwise; each of them sent at most one HTTP request; the fetch starts
\* only after the PUT invocation has returned with a failure.
C8_SingleAttempt ==
    /\ api_call.sent <= 1
    /\ api_call.by # "none" =>
          api_call.sent = IF api_call.token_valid THEN 1 ELSE 0
    /\ Reconciling =>
          /\ cmd.success = Some(FALSE)
          /\ cmd.request.method = "GET"
          /\ cmd.put_calls = 1 /\ cmd.puts <= 1
          /\ cmd.get_calls = 1 /\ cmd.gets <= 1
    /\ cmd.pc \in {"put_token", "put_wait"} =>
          /\ cmd.request.method = "PUT"
          /\ cmd.put_calls = 1 /\ cmd.get_calls = 0 /\ cmd.gets = 0
          /\ cmd.puts = IF cmd.pc = "put_wait" THEN 1 ELSE 0
    /\ (returned.by = "cmd" /\ returned.put_calls = 1) =>
          /\ returned.puts <= 1
          /\ returned.get_calls =
                IF returned.success = Some(TRUE) THEN 0 ELSE 1
          /\ returned.gets <= returned.get_calls
          /\ api_call.by = "cmd"
          /\ api_call.request.method =
                IF returned.success = Some(TRUE) THEN "PUT" ELSE "GET"
          /\ api_call.sent =
                IF returned.success = Some(TRUE) THEN returned.puts
                                                 ELSE returned.gets

\* a command has sent one PUT, which failed, and then one GET
C8_Witness ==
    /\ returned.by = "cmd"
    /\ returned.put_calls = 1
    /\ returned.puts = 1
    /\ returned.success = Some(FALSE)
    /\ returned.gets = 1

\* the request operation has failed: no token, a timeout, a transport error,
\* a 401 or another status than 200 and 204
FailedCall(call) ==
    \/ ~call.token_valid
    \/ call.outcome.kind \in {"timeout", "error"}
    \/ call.outcome.kind = "response" /\ call.outcome.status \notin {200, 204}

\* C9: the step in which a thermostat poll fails leaves every field of the
\* canonical record and the identity as they were and sets the availability
\* flag to false.
C9_FailedPollKeepsRecord ==
    [][(entity = "thermostat" /\ api_call'.by = "poll"
            /\ FailedCall(api_call')) =>
        /\ Canonical(thermostat') = Canonical(thermostat)
        /\ thermostat'.thermostat_id = thermostat.thermostat_id
        /\ ~thermostat'.attr_available]_vars

\* a poll of a heating thermostat has timed out
C9_Witness ==
    /\ entity = "thermostat"
    /\ api_call.by = "poll"
    /\ api_call.outcome = TimedOut
    /\ ~thermostat.attr_available
    /\ thermostat.is_heating
    /\ thermostat.target_temperature # None

\* C10: after every fetch that returns a non-empty raw thermostat record the
\* canonical record is the one that the raw record alone stands for
\* (absent temperature null, absent scheduleMode unknown, absent online
\* true), the entity is available, and normalizing the same record once
\* more, from this state or from a blank entity, gives the same record.
C10_PollReplacesWholesale ==
    FetchedRecord(api_call) =>
        LET raw == api_call.result.value.val
        IN  /\ Canonical(thermostat) = RawCanonical(raw)
            /\ thermostat.attr_available
            /\ UpdateFromData(thermostat, raw) = thermostat
            /\ Canonical(UpdateFromData(BlankThermostat(""), raw)) =
                    Canonical(thermostat)

\* a poll has delivered a record without scheduleMode, setPointTemp and
\* online
C10_Witness ==
    /\ FetchedRecord(api_call)
    /\ api_call.by = "poll"
    /\ api_call.result.value.val.scheduleMode = <<>>
    /\ api_call.result.value.val.setPointTemp = <<>>
    /\ api_call.result.value.val.online = <<>>
    /\ api_call.result.value.val.isHeating = <<TRUE>>
    /\ thermostat.schedule_mode = None
    /\ thermostat.is_online

\* the handler NuheatConductorGroup.async_set_preset_mode has returned in
\* the latest step after having called the API
GroupAwayCommandDone(ret) ==
    /\ entity = "group"
    /\ ret.by = "cmd"
    /\ ret.op = "group_set_preset_mode"
    /\ ret.put_calls = 1

\* the groups of a returned list whose groupId is group_id
SameIdGroups(call, group_id) ==
    IF call.result.value.type = "list"
        THEN {i \in DOMAIN call.result.value.val :
                call.result.value.val[i].groupId = <<group_id>>}
        ELSE {}

\* C11: the step in which a group set-away-mode command succeeds sets
\* away_mode to the requested value (true for "Away", false for "Home") and
\* leaves the rest of the group as it was.  The step in which the command
\* ends after a failure has fetched the group list once: when a group with
\* the same id is in the list, the record is taken from the first such group
\* (awayMode, false when absent; awaySetPointTemp over 100, null when absent)
\* and the entity is available; when there is none, the entity is
\* unavailable and away_mode and away_setpoint are as they were.
C11_GroupAwayReconcile ==
    [][GroupAwayCommandDone(returned') =>
        /\ returned'.wrote
        /\ group'.group_id = group.group_id
        /\ IF returned'.success = Some(TRUE)
             THEN /\ api_call'.request.method = "PUT"
                  /\ returned'.arg = "Away" => group'.away_mode
                  /\ returned'.arg = "Home" => ~group'.away_mode
                  /\ group'.away_mode = api_call'.request.json.awayMode
                  /\ group'.away_setpoint = group.away_setpoint
                  /\ group'.attr_available = group.attr_available
                  /\ returned'.get_calls = 0
             ELSE /\ returned'.success = Some(FALSE)
                  /\ returned'.get_calls = 1
                  /\ api_call'.request = GroupsGetRequest
                  /\ LET same == SameIdGroups(api_call', group.group_id)
                     IN  IF same # {}
                           THEN LET first ==
                                      CHOOSE i \in same :
                                          \A j \in same : i <= j
                                    raw == api_call'.result.value.val[first]
                                IN  /\ group'.attr_available
                                    /\ group'.away_mode =
                                          IF raw.awayMode = <<>>
                                              THEN FALSE
                                              ELSE raw.awayMode[1]
                                    /\ group'.away_setpoint =
                                          IF raw.awaySetPointTemp = <<>>
                                              THEN <<>>
                                              ELSE <<[whole |-> raw.awaySetPointTemp[1] \div 100,
                                                      cents |-> raw.awaySetPointTemp[1] % 100]>>
                           ELSE /\ ~group'.attr_available
                                /\ group'.away_mode = group.away_mode
                                /\ group'.away_setpoint = group.away_setpoint]_vars

\* a failed "Away" command on an available group that is at home has been
\* reconciled with a list that no longer holds the group
C11_Witness ==
    /\ GroupAwayCommandDone(returned)
    /\ returned.arg = "Away"
    /\ returned.success = Some(FALSE)
    /\ returned.puts = 1
    /\ returned.gets = 1
    /\ api_call.result.value.type = "list"
    /\ Len(api_call.result.value.val) = 2
    /\ SameIdGroups(api_call, group.group_id) = {}
    /\ ~group.attr_available
    /\ ~group.away_mode

\* the HTTP request of a task has been sent and has not completed
Outstanding(task) == task.pc \in {"get_wait", "put_wait"}

\* C12: the poll (async_update) and a command handler of the same entity
\* never both have an outstanding request, and so the step that completes a
\* poll never changes a schedule mode or an away mode that a command has set
\* while the poll's request was outstanding.
C12_Original ==
    ~(Outstanding(poll) /\ Outstanding(cmd))

\* async_set_hvac_mode of the legacy thermostat is called in this step with
\* the HVAC mode arg on a thermostat with an identity
LegacyHvacModeCalled(arg) ==
    /\ entity = "legacy_thermostat"
    /\ thermostat.thermostat_id # ""
    /\ cmd.pc = "idle"
    /\ \/ cmd'.pc = "put_token" /\ cmd'.op = "set_hvac_mode" /\ cmd'.arg = arg
       \/ returned'.by = "cmd" /\ returned'.op = "set_hvac_mode"
            /\ returned'.arg = arg

\* the body of the PUT that the handler called in this step has issued; <<>>
\* when it has issued none
Issued == IF cmd'.pc = "put_token" THEN cmd'.request.json ELSE <<>>

\* C13 as stated: in the legacy variant, AUTO issues schedule mode 1, HEAT
\* issues the current target temperature (when there is one) with
\* scheduleMode 2 and OFF issues the device's minimum temperature as the
\* target.
C13_Original ==
    [][/\ LegacyHvacModeCalled("auto") => Issued = [scheduleMode |-> 1]
       /\ (LegacyHvacModeCalled("heat")
             /\ thermostat.target_temperature \notin
                    {<<>>, <<[whole |-> 0, cents |-> 0]>>}) =>
             Issued = [setPointTemp |-> thermostat.target_temperature[1],
                       scheduleMode |-> 2]
       /\ LegacyHvacModeCalled("off") =>
             /\ Issued # <<>>
             /\ Issued.setPointTemp =
                    IF thermostat.min_temperature \notin
                            {<<>>, <<[whole |-> 0, cents |-> 0]>>}
                        THEN thermostat.min_temperature[1]
                        ELSE [whole |-> 41, cents |-> 0]]_vars

\* C13 (amended): in the legacy variant, on a thermostat with an identity,
\* AUTO issues schedule mode 1; HEAT issues the current target temperature as
\* a permanent-hold command (scheduleMode 3) when a target other than 0 is
\* known and issues nothing otherwise; OFF issues a permanent-hold command
\* (scheduleMode 3) whose target is the device's minimum temperature, 41.0
\* when the minimum is unknown or 0.  The thermostat is changed by none of
\* these calls before the request completes.
C13_LegacyHvacMode ==
    [][/\ LegacyHvacModeCalled("auto") => Issued = [scheduleMode |-> 1]
       /\ LegacyHvacModeCalled("heat") =>
             Issued =
               IF thermostat.target_temperature \notin
                        {<<>>, <<[whole |-> 0, cents |-> 0]>>}
                 THEN [setPointTemp |-> thermostat.target_temperature[1],
                       scheduleMode |-> 3]
                 ELSE <<>>
       /\ LegacyHvacModeCalled("off") =>
             Issued =
               [setPointTemp |->
                    IF thermostat.min_temperature \notin
                            {<<>>, <<[whole |-> 0, cents |-> 0]>>}
                        THEN thermostat.min_temperature[1]
                        ELSE [whole |-> 41, cents |-> 0],
                scheduleMode |-> 3]
       /\ (\E arg \in {"auto", "heat", "off"} : LegacyHvacModeCalled(arg)) =>
             thermostat' = thermostat]_vars

\* HEAT has been called on a legacy thermostat whose target is 70 and the
\* permanent-hold command for 70 is on its way
C13_Witness ==
    /\ entity = "legacy_thermostat"
    /\ cmd.pc = "put_wait"
    /\ cmd.op = "set_hvac_mode"
    /\ cmd.arg = "heat"
    /\ thermostat.target_temperature = <<[whole |-> 70, cents |-> 0]>>
    /\ cmd.request.json = [setPointTemp |-> [whole |-> 70, cents |-> 0],
                           scheduleMode |-> 3]

\* the preset name of a schedule-mode code, as the data model names them
PresetName(m) ==
    CASE m = 1 -> "Auto"
      [] m = 2 -> "Hold"
      [] m = 3 -> "Permanent Hold"

\* C14: a thermostat whose schedule mode is m in {1,2,3} shows the preset
\* named after m (1 "Auto", 2 "Hold", 3 "Permanent Hold"), and a thermostat
\* whose schedule mode is unknown or absent shows no preset; a set-preset
\* command that carries the name of m issues scheduleMode m, the one the
\* thermostat is in when the name is the preset it shows, and when it
\* succeeds m is stored, so that the thermostat then shows that preset.
C14_PresetRoundTrip ==
    /\ [](entity = "thermostat" =>
            /\ \A m \in 1..3 :
                  thermostat.schedule_mode = <<m>> =>
                      preset_mode(thermostat) = <<PresetName(m)>>
            /\ thermostat.schedule_mode \notin {<<1>>, <<2>>, <<3>>} =>
                  preset_mode(thermostat) = <<>>)
    /\ [][entity = "thermostat" =>
            /\ (cmd.pc = "idle" /\ cmd'.pc = "put_token"
                    /\ cmd'.op = "set_preset_mode") =>
                  /\ \A m \in 1..3 :
                        cmd'.arg = PresetName(m) =>
                            cmd'.request.json =
                                [serialNumber |-> thermostat.thermostat_id,
                                 scheduleMode |-> m]
                  /\ preset_mode(thermostat) = <<cmd'.arg>> =>
                        <<cmd'.request.json.scheduleMode>> =
                            thermostat.schedule_mode
            /\ (returned'.by = "cmd" /\ returned'.op = "set_preset_mode"
                    /\ returned'.success = Some(TRUE)) =>
                  /\ \A m \in 1..3 :
                        returned'.arg = PresetName(m) =>
                            /\ api_call'.request.json.scheduleMode = m
                            /\ thermostat'.schedule_mode = <<m>>
                  /\ preset_mode(thermostat') = <<returned'.arg>>]_vars

\* a "Hold" command has succeeded with scheduleMode 2 on a thermostat that
\* has a target temperature
C14_Witness ==
    /\ entity = "thermostat"
    /\ returned.by = "cmd"
    /\ returned.op = "set_preset_mode"
    /\ returned.arg = "Hold"
    /\ returned.success = Some(TRUE)
    /\ api_call.request.json.scheduleMode = 2
    /\ thermostat.schedule_mode = Some(2)
    /\ thermostat.target_temperature # None

\* C15: a thermostat set-preset command whose preset name is none of "Auto",
\* "Hold" and "Permanent Hold" returns in the step in which it is called: it
\* has called the API not once (no PUT, no reconciling fetch), has not
\* republished, and has left the whole thermostat unchanged; no set-preset
\* command with such a name is ever in flight.
C15_UnknownPresetRejected ==
    /\ [](cmd.op = "set_preset_mode" =>
            cmd.arg \in {"Auto", "Hold", "Permanent Hold"})
    /\ [][(entity = "thermostat" /\ returned'.by = "cmd"
                /\ returned'.op = "set_preset_mode"
                /\ returned'.arg \notin {"Auto", "Hold", "Permanent Hold"}) =>
            /\ cmd.pc = "idle"
            /\ cmd' = IdleCmd
            /\ api_call' = NoApiCall
            /\ NothingDone(returned')
            /\ returned'.success = <<>>
            /\ thermostat' = thermostat]_vars

\* the preset "Eco" has been sent to an online thermostat with an identity
C15_Witness ==
    /\ entity = "thermostat"
    /\ thermostat.thermostat_id # ""
    /\ thermostat.is_online
    /\ returned.by = "cmd"
    /\ returned.op = "set_preset_mode"
    /\ returned.arg = "Eco"

\* C16: a raw vendor temperature that is an exact multiple of 100, decoded
\* (divided by 100.0) and encoded for a set-temperature payload (multiplied
\* by 100 and converted to an integer), comes back as setPointTemp
\* unchanged; the decoded value is the whole number of degrees.
C16_RoundTripExact ==
    (raw_temp % 100 = 0) =>
        /\ decoded # <<>> =>
              decoded = <<[whole |-> raw_temp \div 100, cents |-> 0]>>
        /\ payload # <<>> => payload = <<raw_temp>>

\* 3500 has been decoded to 35.0 and encoded again
C16_Witness ==
    /\ raw_temp = 3500
    /\ decoded = <<[whole |-> 35, cents |-> 0]>>
    /\ payload = <<3500>>

\* the call is a thermostat fetch that the vendor answered without a record:
\* with 204 or with the empty JSON object
AnsweredEmpty(call) ==
    /\ entity = "thermostat"
    /\ call.request.method = "GET"
    /\ call.sent = 1
    /\ \/ call.outcome.kind = "response" /\ call.outcome.status = 204
       \/ /\ call.outcome.kind = "response" /\ call.outcome.status = 200
          /\ call.outcome.body.type = "dict"
          /\ \A k \in DOMAIN call.outcome.body.val :
                call.outcome.body.val[k] = <<>>

C18_Original ==
    [][\A f \in DOMAIN flows :
        /\ (flows[f].step = "reauth_confirm"
                /\ flows'[f].step # "reauth_confirm") =>
              /\ flows'[f].step = "oauth"
              /\ flows'[f].result.type # "abort"
        /\ (flows[f].source = "reauth" /\ flows[f].step = "oauth"
                /\ flows'[f].step = "done") =>
              /\ flows'[f].result = Abort("reauth_successful")
              /\ Len(entries') = Len(entries)
              /\ entries'[1].data = flows'[f].data[1]
              /\ entries'[1].reloads = entries[1].reloads + 1]_vars

\* a user-initiated flow has just been started
UserFlowStarted(f) ==
    /\ flows[f].source = "none"
    /\ flows'[f].source = "user"

\* the OAuth round of a flow has just completed
OAuthCompleted(f) ==
    /\ flows[f].step = "oauth"
    /\ flows'[f].step = "done"

\* C19: there is never more than one config entry; a user-initiated flow
\* started while an entry exists ends at once with the reason
\* single_instance_allowed, never reaches the OAuth step and leaves the
\* entries as they are; an OAuth completion that finds an entry puts the new
\* token data in that entry, ends with an abort and adds no entry, and one
\* that finds none adds the first entry, which carries the unique id of the
\* integration.
C19_SingleEntry ==
    /\ [](Len(entries) <= 1)
    /\ [][\A f \in DOMAIN flows :
            /\ (UserFlowStarted(f) /\ entries # <<>>) =>
                  /\ flows'[f].step = "done"
                  /\ flows'[f].result = Abort("single_instance_allowed")
                  /\ entries' = entries
            /\ (OAuthCompleted(f) /\ entries # <<>>) =>
                  /\ Len(entries') = Len(entries)
                  /\ entries'[1].data = flows'[f].data[1]
                  /\ entries'[1].unique_id = entries[1].unique_id
                  /\ flows'[f].result \in
                        {Abort("reauth_successful"), Abort("oauth_error")}
            /\ (OAuthCompleted(f) /\ entries = <<>>) =>
                  /\ Len(entries') = 1
                  /\ entries'[1].unique_id = <<"nuheat_conductor">>
                  /\ entries'[1].data = flows'[f].data[1]
                  /\ flows'[f].result.type = "create_entry"]_vars

\* one flow has created the entry and a later flow, started by the user, has
\* been aborted as a second instance
C19_Witness ==
    /\ Len(entries) = 1
    /\ entries[1].data = "token_a"
    /\ \E f, h \in DOMAIN flows :
          /\ f < h
          /\ flows[f].result.type = "create_entry"
          /\ flows[f].data = <<"token_a">>
          /\ flows[h].source = "user"
          /\ flows[h].result = Abort("single_instance_allowed")
          /\ flows[h].step = "done"

\* neither a setup nor an unload of the entry is under way
Settled(e) ==
    setups[e].state \in {"not_loaded", "loaded", "setup_error", "failed_unload"}

\* C20: whenever neither a setup nor an unload of an entry is under way, a
\* session is stored under its entry id exactly if its last setup returned
\* true and no unload has succeeded since, and the session is the one that
\* this last setup made; hass.data has the key DOMAIN once a session is
\* stored.  The step in which the token validation of a setup fails ends the
\* setup with false, changes nothing in the registry and forwards no
\* platform setup; the step in which the platform unload fails leaves the
\* registry as it is, the session of the entry still in it.
C20_SessionRegistry ==
    /\ [](\A e \in DOMAIN setups :
            /\ Settled(e) =>
                  /\ (hass_data.sessions[e] # None) =
                        (setups[e].last_setup = "true" /\ ~setups[e].unloaded)
                  /\ hass_data.sessions[e] # None =>
                        hass_data.sessions[e] = Some(setups[e].calls)
            /\ hass_data.sessions[e] # None => hass_data.domain)
    /\ [][\A e \in DOMAIN setups :
            /\ (setups[e].state = "setup_token"
                    /\ setups'[e].state = "setup_error") =>
                  /\ setups'[e].last_setup = "false"
                  /\ hass_data' = hass_data
                  /\ setups'[e].forwards = setups[e].forwards
            /\ (setups[e].state = "unloading"
                    /\ setups'[e].state = "failed_unload") =>
                  /\ hass_data' = hass_data
                  /\ hass_data.sessions[e] # None]_vars

\* an entry has been set up, unloaded and set up again with a token that
\* could not be validated, while the unload of the other entry has failed
C20_Witness ==
    /\ setups["entry_1"].state = "setup_error"
    /\ setups["entry_1"].calls = 2
    /\ setups["entry_1"].last_setup = "false"
    /\ hass_data.sessions["entry_1"] = None
    /\ setups["entry_2"].state = "failed_unload"
    /\ hass_data.sessions["entry_2"] = Some(1)

====
